---- MODULE Spec2Model ----
(***************************************************************************)
(* A model of nispor's IP address reconciliation, src/src/lib/ip.rs:       *)
(* change_ips and apply_ip_conf driving the rtnetlink add/del requests     *)
(* against the kernel's address table.                                     *)
(*                                                                         *)
(* Texts (Rust String / &str) are sequences of characters.  A character is *)
(* a one-letter string; a character outside ASCII is written by its code   *)
(* point name ("U+20AC"), and Utf8Len gives the bytes it takes, since the  *)
(* source measures and slices texts in bytes.  Option<T> is a sequence of  *)
(* length 0 (None) or 1 (Some).                                            *)
(***************************************************************************)
EXTENDS Integers, Sequences, FiniteSets, TLC

None == <<>>
Some(x) == <<x>>
IsSome(o) == Len(o) = 1
IsNone(o) == Len(o) = 0
Unwrap(o) == o[1]

Range(s) == {s[i] : i \in 1..Len(s)}

(***************************************************************************)
(* Characters and texts.                                                   *)
(***************************************************************************)
Digits == <<"0", "1", "2", "3", "4", "5", "6", "7", "8", "9">>
HexLower == <<"0", "1", "2", "3", "4", "5", "6", "7", "8", "9",
              "a", "b", "c", "d", "e", "f">>
HexUpper == <<"0", "1", "2", "3", "4", "5", "6", "7", "8", "9",
              "A", "B", "C", "D", "E", "F">>

IsDigit(c) == \E i \in 1..10 : Digits[i] = c
DigitVal(c) == (CHOOSE i \in 1..10 : Digits[i] = c) - 1
IsHexDigit(c) == \E i \in 1..16 : HexLower[i] = c \/ HexUpper[i] = c
HexVal(c) == (CHOOSE i \in 1..16 : HexLower[i] = c \/ HexUpper[i] = c) - 1

\* Bytes of a character in UTF-8 (str::len and str slicing count bytes).
TwoByteChars == {"U+00E9"}
ThreeByteChars == {"U+20AC"}
Utf8Len(c) == IF c \in TwoByteChars THEN 2 ELSE IF c \in ThreeByteChars THEN 3 ELSE 1

RECURSIVE ByteLen(_)
ByteLen(t) == IF t = <<>> THEN 0 ELSE Utf8Len(Head(t)) + ByteLen(Tail(t))

\* str::is_char_boundary(n), for n <= len.
IsCharBoundary(t, n) == \E j \in 0..Len(t) : ByteLen(SubSeq(t, 1, j)) = n
\* &t[..n] where n is a character boundary.
SliceTo(t, n) == SubSeq(t, 1, CHOOSE j \in 0..Len(t) : ByteLen(SubSeq(t, 1, j)) = n)

\* str::split(sep).collect(): the pieces between the separators, empty pieces kept.
RECURSIVE Split(_, _)
Split(t, sep) ==
    IF \A i \in 1..Len(t) : t[i] # sep
    THEN <<t>>
    ELSE LET i == CHOOSE i \in 1..Len(t) : t[i] = sep /\ \A j \in 1..(i - 1) : t[j] # sep
         IN <<SubSeq(t, 1, i - 1)>> \o Split(SubSeq(t, i + 1, Len(t)), sep)

\* u8's Display: decimal, no padding.
RECURSIVE Dec(_)
Dec(n) == IF n < 10 THEN <<Digits[n + 1]>> ELSE Dec(n \div 10) \o <<Digits[(n % 10) + 1]>>

RECURSIVE DecVal(_)
DecVal(t) == IF t = <<>> THEN 0 ELSE DecVal(SubSeq(t, 1, Len(t) - 1)) * 10 + DigitVal(t[Len(t)])

U8Max == 255

\* str::parse::<u8>: an optional "+", then one or more digits, value at most 255.
ParseU8(t) ==
    LET d == IF t # <<>> /\ Head(t) = "+" THEN Tail(t) ELSE t
    IN IF d # <<>> /\ (\A i \in 1..Len(d) : IsDigit(d[i])) /\ DecVal(d) <= U8Max
       THEN Some(DecVal(d))
       ELSE None

\* format!("{}/{}", address, prefix_len)
FullAddress(address, prefix_len) == address \o <<"/">> \o Dec(prefix_len)

(***************************************************************************)
(* std::net address parsing and display.  An IpAddr is the sequence of its *)
(* 4 octets (V4) or of its 8 sixteen-bit groups (V6).  Texts that embed a  *)
(* dotted quad in an IPv6 address are outside the texts drawn here.        *)
(***************************************************************************)
IsV6(ip) == Len(ip) = 8

IsOctetText(p) ==
    /\ Len(p) \in 1..3
    /\ \A i \in 1..Len(p) : IsDigit(p[i])
    /\ (Len(p) > 1 => p[1] # "0")
    /\ DecVal(p) <= 255

\* Ipv4Addr::from_str
ParseIpv4(t) ==
    LET parts == Split(t, ".")
    IN IF Len(parts) = 4 /\ \A i \in 1..Len(parts) : IsOctetText(parts[i])
       THEN Some([i \in 1..4 |-> DecVal(parts[i])])
       ELSE None

RECURSIVE HexGroupVal(_)
HexGroupVal(t) ==
    IF t = <<>> THEN 0 ELSE HexGroupVal(SubSeq(t, 1, Len(t) - 1)) * 16 + HexVal(t[Len(t)])

IsGroupText(p) == Len(p) \in 1..4 /\ \A i \in 1..Len(p) : IsHexDigit(p[i])

GroupsOf(t) == IF t = <<>> THEN <<>> ELSE Split(t, ":")

\* Ipv6Addr::from_str: eight groups, or fewer around one "::".
ParseIpv6(t) ==
    LET doubles == {i \in 1..(Len(t) - 1) : t[i] = ":" /\ t[i + 1] = ":"}
    IN IF doubles = {}
       THEN LET parts == Split(t, ":")
            IN IF Len(parts) = 8 /\ \A i \in 1..Len(parts) : IsGroupText(parts[i])
               THEN Some([i \in 1..8 |-> HexGroupVal(parts[i])])
               ELSE None
       ELSE LET at == CHOOSE i \in doubles : \A j \in doubles : i <= j
                head == GroupsOf(SubSeq(t, 1, at - 1))
                tail == GroupsOf(SubSeq(t, at + 2, Len(t)))
            IN IF /\ Len(head) + Len(tail) < 8
                  /\ \A i \in 1..Len(head) : IsGroupText(head[i])
                  /\ \A i \in 1..Len(tail) : IsGroupText(tail[i])
               THEN Some([i \in 1..8 |->
                            IF i <= Len(head) THEN HexGroupVal(head[i])
                            ELSE IF i > 8 - Len(tail)
                                 THEN HexGroupVal(tail[i - (8 - Len(tail))])
                                 ELSE 0])
               ELSE None

RECURSIVE Hex(_)
Hex(n) == IF n < 16 THEN <<HexLower[n + 1]>> ELSE Hex(n \div 16) \o <<HexLower[(n % 16) + 1]>>

RECURSIVE Join(_, _)
Join(parts, sep) ==
    IF parts = <<>> THEN <<>>
    ELSE IF Len(parts) = 1 THEN parts[1]
    ELSE parts[1] \o <<sep>> \o Join(Tail(parts), sep)

\* Display of Ipv4Addr: the octets in decimal.
FormatIpv4(ip) == Join([i \in 1..Len(ip) |-> Dec(ip[i])], ".")

\* Display of Ipv6Addr: lower-case groups, the first longest run of two or more
\* zero groups written "::".
FormatIpv6(ip) ==
    LET runs == {r \in (1..8) \X (2..8) :
                    /\ r[1] + r[2] - 1 <= 8
                    /\ \A i \in r[1]..(r[1] + r[2] - 1) : ip[i] = 0}
        hex(a, b) == Join([i \in 1..(b - a + 1) |-> Hex(ip[a + i - 1])], ":")
    IN IF runs = {}
       THEN hex(1, 8)
       ELSE LET best == CHOOSE r \in runs :
                            \A q \in runs : q[2] < r[2] \/ (q[2] = r[2] /\ r[1] <= q[1])
            IN hex(1, best[1] - 1) \o <<":", ":">> \o hex(best[1] + best[2], 8)

FormatIpAddr(ip) == IF IsV6(ip) THEN FormatIpv6(ip) ELSE FormatIpv4(ip)

(***************************************************************************)
(* The address classifiers.                                                *)
(***************************************************************************)
is_ipv6_addr(addr) == \E i \in 1..Len(addr) : addr[i] = ":"

LinkLocalPrefixes == {<<"f", "e", "8">>, <<"f", "e", "9">>, <<"f", "e", "a">>, <<"f", "e", "b">>}
LinkLocalPrefixBytes == 3
LinkLocalMinPrefixLen == 10

\* &ip[..3] panics when byte 3 falls inside a character; the && chain reaches the
\* slice only for a text with a colon and at least three bytes.
is_ipv6_unicast_link_local_full_panics(ip, prefix_len) ==
    /\ is_ipv6_addr(ip)
    /\ ByteLen(ip) >= LinkLocalPrefixBytes
    /\ ~IsCharBoundary(ip, LinkLocalPrefixBytes)

is_ipv6_unicast_link_local_full(ip, prefix_len) ==
    /\ is_ipv6_addr(ip)
    /\ ByteLen(ip) >= LinkLocalPrefixBytes
    /\ IsCharBoundary(ip, LinkLocalPrefixBytes)
    /\ SliceTo(ip, LinkLocalPrefixBytes) \in LinkLocalPrefixes
    /\ prefix_len >= LinkLocalMinPrefixLen

is_ipv6_unicast_link_local(address_full) ==
    LET v == Split(address_full, "/")
    IN IF Len(v) = 2
       THEN LET prefix == ParseU8(v[2])
            IN IF IsSome(prefix)
               THEN is_ipv6_unicast_link_local_full(v[1], Unwrap(prefix))
               ELSE FALSE
       ELSE FALSE

\* A variant of ip_addr_str_to_enum: a text that does not parse gives the
\* unspecified address.
ip_addr_str_to_enum_lenient(address) ==
    IF is_ipv6_addr(address)
    THEN (IF IsSome(ParseIpv6(address)) THEN ParseIpv6(address)
          ELSE Some(<<0, 0, 0, 0, 0, 0, 0, 0>>))
    ELSE (IF IsSome(ParseIpv4(address)) THEN ParseIpv4(address) ELSE Some(<<0, 0, 0, 0>>))

\* ip_addr_str_to_enum: Some(IpAddr), or None for the parse error.
ip_addr_str_to_enum(address) ==
    IF is_ipv6_addr(address) THEN ParseIpv6(address) ELSE ParseIpv4(address)
(***************************************************************************)
(* Data.                                                                   *)
(*   IpAddrConf      [address, prefix_len]                                 *)
(*   IpConf          [addresses : Seq(IpAddrConf)]                         *)
(*   Ipv4/6AddrInfo  [address, prefix_len, valid_lft]   (peer and          *)
(*                   preferred_lft are never read by this file)            *)
(*   Ipv4/6Info      [addresses : Seq(AddrInfo)]                           *)
(*   IfaceConf       [name, ipv4 : Option(IpConf), ipv6 : Option(IpConf)]  *)
(*   Iface           [name, index, ipv4 : Option(Info), ipv6 : Option(Info)]*)
(*   AddressMessage  [index, address : IpAddr, prefix_len, valid_lft]      *)
(* The kernel's address table is a set of AddressMessage, at most one per  *)
(* (index, address, prefix_len).                                           *)
(***************************************************************************)
Ipv4 == "Ipv4"
Ipv6 == "Ipv6"
Forever == "forever"

IpAddrConf(address, prefix_len) == [address |-> address, prefix_len |-> prefix_len]

\* A variant of IpConfFrom: the lifetime is not looked at.
IpConfFrom_any_lifetime(info) ==
    [addresses |-> [j \in 1..Len(info.addresses) |->
                      IpAddrConf(info.addresses[j].address, info.addresses[j].prefix_len)]]

\* impl From<&Ipv4Info> for IpConf and impl From<&Ipv6Info> for IpConf
IpConfFrom(info) ==
    LET kept == SelectSeq(info.addresses, LAMBDA addr_info : addr_info.valid_lft = Forever)
    IN [addresses |-> [j \in 1..Len(kept) |->
                          IpAddrConf(kept[j].address, kept[j].prefix_len)]]

\* Option::map(|ip_info| ip_info.into())
MapInto(info_opt) == IF IsSome(info_opt) THEN Some(IpConfFrom(Unwrap(info_opt))) ELSE None

\* crate::netlink accessors of a kernel address record.
get_ip_addr(nl_addr_msg) == FormatIpAddr(nl_addr_msg.address)
get_ip_prefix_len(nl_addr_msg) == nl_addr_msg.prefix_len

NlKey(nl_addr_msg) == FullAddress(get_ip_addr(nl_addr_msg), get_ip_prefix_len(nl_addr_msg))

\* get_nl_addr_msgs over the records the dump returns: interface index ->
\* ("address/prefix" -> record).
get_nl_addr_msgs(dump) ==
    [iface_index \in {m.index : m \in dump} |->
        [full_address \in {NlKey(m) : m \in {n \in dump : n.index = iface_index}} |->
            CHOOSE m \in dump : m.index = iface_index /\ NlKey(m) = full_address]]

\* HashMap::get
MapGet(map, key) == IF key \in DOMAIN map THEN Some(map[key]) ELSE None

(***************************************************************************)
(* The kernel side of the channel (rtnetlink address add/del requests).    *)
(***************************************************************************)
SameAddress(m, n) ==
    m.index = n.index /\ m.address = n.address /\ m.prefix_len = n.prefix_len

KernelHas(table, msg) == \E m \in table : SameAddress(m, msg)

\* The record an acknowledged add creates: a permanent address.
NewAddress(iface_index, ip, prefix_len) ==
    [index |-> iface_index, address |-> ip, prefix_len |-> prefix_len, valid_lft |-> Forever]

KernelAdd(table, msg) == table \cup {msg}
KernelDel(table, msg) == {m \in table : ~SameAddress(m, msg)}

\* An add of an address the table holds is rejected (the request is exclusive), a
\* del of one it does not hold is rejected; any call may fail in transport.
AddOutcomes(table, msg) == IF KernelHas(table, msg) THEN {FALSE} ELSE {TRUE, FALSE}
DelOutcomes(table, msg) == IF KernelHas(table, msg) THEN {TRUE, FALSE} ELSE {FALSE}
(***************************************************************************)
(* State.  kernel is the kernel's address table, shared by every run.      *)
(* run[r] is one call of change_ips: its arguments, its locals and the     *)
(* place it has reached.  Each channel call (the dump, an add, a del) is   *)
(* awaited, so each is one step; the code between two awaits is part of    *)
(* the step of the await that it leads to.                                 *)
(*   pc        "idle"           not called yet                             *)
(*             "for_iface"      line 204, about to take ifaces[i]          *)
(*             "apply_ip_conf"  line 238, entering the pass of ip_family   *)
(*             "pass"           inside the loops of lines 246, 274, 311,   *)
(*                              336                                        *)
(*             "Ok" "Err" "panic"   returned / unwound                     *)
(*   arm       the match arm of line 240                                   *)
(*   nl_iter   keys of nl_addr_msgs.iter() still to visit (line 246)       *)
(*   to_remove entries of &cur - &des still to visit (line 311)            *)
(*   to_add    entries of &des - &cur still to visit (line 336)            *)
(*   add_vec   the rest of ip_conf.addresses (line 274)                    *)
(*   log       the del and add calls issued, in order; ok is the answer    *)
(***************************************************************************)
VARIABLES kernel, run

vars == <<kernel, run>>

Runs == {"A", "B"}

IdleRun ==
    [pc |-> "idle", error |-> "none", ifaces |-> <<>>, cur_ifaces |-> <<>>,
     iface_2_nl_addr_msgs |-> <<>>, i |-> 0, ip_family |-> Ipv4, arm |-> "none",
     has_ipv6_link_local_in_desire |-> FALSE,
     nl_iter |-> {}, to_remove |-> {}, to_add |-> {}, add_vec |-> <<>>, log |-> <<>>]

\* The locals of the pass a run is in.
Iface_(me) == me.ifaces[me.i]
CurIface(me) == me.cur_ifaces[Iface_(me).name]

\* A variant of NlAddrMsgs: the index is read again from the kernel table.
NlAddrMsgs_queried_again(me) == MapGet(get_nl_addr_msgs(kernel), CurIface(me).index)

NlAddrMsgs(me) == MapGet(me.iface_2_nl_addr_msgs, CurIface(me).index)
IpConfOf(me) == IF me.ip_family = Ipv4 THEN Iface_(me).ipv4 ELSE Iface_(me).ipv6
CurInfoOf(me) == IF me.ip_family = Ipv4 THEN CurIface(me).ipv4 ELSE CurIface(me).ipv6
CurIpConfOf(me) == MapInto(CurInfoOf(me))

\* Line 301: the flag is computed from the desired list in the IPv4 pass and is
\* false in the IPv6 pass.
HasIpv6LinkLocalInDesire(ip_family, ip_conf) ==
    IF ip_family = Ipv4
    THEN \E j \in 1..Len(ip_conf.addresses) :
            is_ipv6_unicast_link_local_full(ip_conf.addresses[j].address,
                                            ip_conf.addresses[j].prefix_len)
    ELSE FALSE

\* Iterator::any stops at the first true element: the slice of a later element is
\* never taken.
HasIpv6LinkLocalInDesirePanics(ip_family, ip_conf) ==
    /\ ip_family = Ipv4
    /\ \E j \in 1..Len(ip_conf.addresses) :
          /\ is_ipv6_unicast_link_local_full_panics(ip_conf.addresses[j].address,
                                                    ip_conf.addresses[j].prefix_len)
          /\ \A k \in 1..(j - 1) :
                ~is_ipv6_unicast_link_local_full(ip_conf.addresses[k].address,
                                                 ip_conf.addresses[k].prefix_len)

\* A variant of BulkDeletes: link-local records are not spared.
BulkDeletes_link_local_too(ip_family, address_full) ==
    IF ip_family = Ipv4 THEN ~is_ipv6_addr(address_full) ELSE is_ipv6_addr(address_full)

\* Lines 247-268: whether the (None, Some) arm deletes the record under this key.
BulkDeletes(ip_family, address_full) ==
    IF ip_family = Ipv4
    THEN ~is_ipv6_addr(address_full)
    ELSE is_ipv6_addr(address_full) /\ ~is_ipv6_unicast_link_local(address_full)

\* A variant of Retained: no entry is kept.
Retained_never(ip_family, has_ll_in_desire, addr_to_remove) == FALSE

\* Lines 314-319: the entry is kept without looking it up.
Retained(ip_family, has_ll_in_desire, addr_to_remove) ==
    /\ ip_family = Ipv6
    /\ ~has_ll_in_desire
    /\ is_ipv6_unicast_link_local_full(addr_to_remove.address, addr_to_remove.prefix_len)

\* The && chain of line 314 reaches the classifier only in the IPv6 pass with the
\* flag false.
RetainedPanics(ip_family, has_ll_in_desire, addr_to_remove) ==
    /\ ip_family = Ipv6
    /\ ~has_ll_in_desire
    /\ is_ipv6_unicast_link_local_full_panics(addr_to_remove.address,
                                              addr_to_remove.prefix_len)

\* A variant of LookupRemoval: an entry the index lacks is sent for removal with a
\* record made from its text.
LookupRemoval_unindexed_sent(nl_addr_msgs, addr_to_remove) ==
    IF /\ IsSome(nl_addr_msgs)
       /\ FullAddress(addr_to_remove.address, addr_to_remove.prefix_len)
              \in DOMAIN Unwrap(nl_addr_msgs)
    THEN Some(Unwrap(nl_addr_msgs)[FullAddress(addr_to_remove.address,
                                               addr_to_remove.prefix_len)])
    ELSE Some(NewAddress(0, Unwrap(ip_addr_str_to_enum(addr_to_remove.address)),
                         addr_to_remove.prefix_len))

\* Lines 321-325: the record a removal is sent with, if the index has it.
LookupRemoval(nl_addr_msgs, addr_to_remove) ==
    IF IsSome(nl_addr_msgs)
    THEN MapGet(Unwrap(nl_addr_msgs),
                FullAddress(addr_to_remove.address, addr_to_remove.prefix_len))
    ELSE None

\* A variant of PassOrder: the IPv6 pass first.
PassOrder_v6_first == <<Ipv6, Ipv4>>

\* Lines 207-224: the passes of one interface, in order.
PassOrder == <<Ipv4, Ipv6>>

\* Variants of the differences: every current entry removed, every desired entry
\* added.
ToRemove_all_current(cur_ip_addr_confs, des_ip_addr_confs) == cur_ip_addr_confs
ToAdd_all_desired(cur_ip_addr_confs, des_ip_addr_confs) == des_ip_addr_confs

\* Lines 287-300, 311, 336: the two differences of the (Some, Some) arm.
ToRemove(cur_ip_addr_confs, des_ip_addr_confs) == cur_ip_addr_confs \ des_ip_addr_confs
ToAdd(cur_ip_addr_confs, des_ip_addr_confs) == des_ip_addr_confs \ cur_ip_addr_confs

\* A variant of AddVec: the first element is not visited.
AddVec_first_dropped(ip_conf) == IF ip_conf.addresses = <<>> THEN <<>> ELSE Tail(ip_conf.addresses)

\* Line 274: the (Some, None) arm visits the desired list itself, element by element.
AddVec(ip_conf) == ip_conf.addresses

\* A variant of RemovalsDone: additions do not wait for the removals.
RemovalsDone_not_awaited(me) == TRUE

\* The add loop of line 336 starts when the removal loop of line 311 has ended;
\* the other arms have one loop.
RemovalsDone(me) == me.nl_iter = {} /\ me.to_remove = {}

\* A variant of Answer: the error of a call is dropped and the loop goes on.
Answer_error_dropped(rest, call) == [rest EXCEPT !.log = Append(@, call)]

\* The ? after each awaited call: an error ends the run with that error.
Answer(rest, call) ==
    IF call.ok
    THEN [rest EXCEPT !.log = Append(@, call)]
    ELSE [rest EXCEPT !.log = Append(@, call), !.pc = "Err", !.error = "netlink"]

Call(op, me, key, msg, ok) ==
    [op |-> op, i |-> me.i, ip_family |-> me.ip_family, key |-> key, msg |-> msg, ok |-> ok]

Update(r, next) == run' = [run EXCEPT ![r] = next]

\* A variant of change_ips: a call starts only when no other call is in progress.
change_ips_exclusive(r, ifaces, cur_ifaces) ==
    /\ run[r].pc = "idle"
    /\ \A q \in Runs \ {r} : run[q].pc \in {"idle", "Ok", "Err", "panic"}
    /\ \E dump_ok \in BOOLEAN :
          Update(r, IF dump_ok
                    THEN [run[r] EXCEPT !.pc = "for_iface", !.ifaces = ifaces,
                                        !.cur_ifaces = cur_ifaces,
                                        !.iface_2_nl_addr_msgs = get_nl_addr_msgs(kernel),
                                        !.i = 1]
                    ELSE [run[r] EXCEPT !.pc = "Err", !.error = "netlink",
                                        !.ifaces = ifaces, !.cur_ifaces = cur_ifaces])
    /\ UNCHANGED kernel

\* change_ips up to the end of get_nl_addr_msgs (line 202): the dump either fails,
\* and the call returns the error, or gives the index.
change_ips(r, ifaces, cur_ifaces) ==
    /\ run[r].pc = "idle"
    /\ \E dump_ok \in BOOLEAN :
          Update(r, IF dump_ok
                    THEN [run[r] EXCEPT !.pc = "for_iface", !.ifaces = ifaces,
                                        !.cur_ifaces = cur_ifaces,
                                        !.iface_2_nl_addr_msgs = get_nl_addr_msgs(kernel),
                                        !.i = 1]
                    ELSE [run[r] EXCEPT !.pc = "Err", !.error = "netlink",
                                        !.ifaces = ifaces, !.cur_ifaces = cur_ifaces])
    /\ UNCHANGED kernel

\* A variant of for_iface: an interface without current state ends the run with an
\* error.
for_iface_unknown_is_error(r) ==
    LET me == run[r]
    IN /\ me.pc = "for_iface"
       /\ Update(r, IF me.i > Len(me.ifaces)
                    THEN [me EXCEPT !.pc = "Ok"]
                    ELSE IF me.ifaces[me.i].name \in DOMAIN me.cur_ifaces
                         THEN [me EXCEPT !.pc = "apply_ip_conf", !.ip_family = PassOrder[1]]
                         ELSE [me EXCEPT !.pc = "Err", !.error = "no current state"])
       /\ UNCHANGED kernel

\* IfaceConf::default(): the empty name, no family configured.
DefaultIfaceConf == [name |-> "", ipv4 |-> None, ipv6 |-> None]

\* IpConf::apply (lines 109-132): an IfaceConf with the configuration in the field
\* of the family and every other field from the default, a mapping with cur_iface
\* under its name, then change_ips.
IpConf_apply(r, self, cur_iface, family) ==
    LET iface == IF family = Ipv4
                 THEN [DefaultIfaceConf EXCEPT !.ipv4 = Some(self)]
                 ELSE [DefaultIfaceConf EXCEPT !.ipv6 = Some(self)]
    IN change_ips(r, <<iface>>, [name \in {cur_iface.name} |-> cur_iface])

\* Lines 204-206 and 228: the loop head.
for_iface(r) ==
    LET me == run[r]
    IN /\ me.pc = "for_iface"
       /\ Update(r, IF me.i > Len(me.ifaces)
                    THEN [me EXCEPT !.pc = "Ok"]
                    ELSE IF me.ifaces[me.i].name \in DOMAIN me.cur_ifaces
                         THEN [me EXCEPT !.pc = "apply_ip_conf", !.ip_family = PassOrder[1]]
                         ELSE [me EXCEPT !.i = me.i + 1])
       /\ UNCHANGED kernel

\* Lines 240-310: the match and, in the (Some, Some) arm, the two sets and the flag.
EnterPass(me) ==
    LET ip_conf == IpConfOf(me)
        cur_ip_conf == CurIpConfOf(me)
        nl_addr_msgs == NlAddrMsgs(me)
    IN IF IsNone(ip_conf) /\ IsNone(cur_ip_conf)
       THEN [me EXCEPT !.pc = "pass", !.arm = "NoneNone"]
       ELSE IF IsNone(ip_conf)
       THEN [me EXCEPT !.pc = "pass", !.arm = "NoneSome",
                       !.nl_iter = IF IsSome(nl_addr_msgs)
                                   THEN DOMAIN Unwrap(nl_addr_msgs) ELSE {}]
       ELSE IF IsNone(cur_ip_conf)
       THEN [me EXCEPT !.pc = "pass", !.arm = "SomeNone",
                       !.add_vec = AddVec(Unwrap(ip_conf))]
       ELSE LET des_ip_addr_confs == Range(Unwrap(ip_conf).addresses)
                cur_ip_addr_confs == Range(Unwrap(cur_ip_conf).addresses)
            IN IF HasIpv6LinkLocalInDesirePanics(me.ip_family, Unwrap(ip_conf))
               THEN [me EXCEPT !.pc = "panic", !.arm = "SomeSome"]
               ELSE [me EXCEPT !.pc = "pass", !.arm = "SomeSome",
                               !.has_ipv6_link_local_in_desire =
                                   HasIpv6LinkLocalInDesire(me.ip_family, Unwrap(ip_conf)),
                               !.to_remove = ToRemove(cur_ip_addr_confs, des_ip_addr_confs),
                               !.to_add = ToAdd(cur_ip_addr_confs, des_ip_addr_confs)]

apply_ip_conf(r) ==
    /\ run[r].pc = "apply_ip_conf"
    /\ Update(r, EnterPass(run[r]))
    /\ UNCHANGED kernel

\* One element of a removal loop that issues no call: a record of the other
\* family or a link-local one (line 246), a retained or unindexed entry (line 311),
\* or an entry whose classification panics.
skip(r) ==
    LET me == run[r]
    IN /\ me.pc = "pass"
       /\ IF me.arm = "NoneSome"
          THEN \E address_full \in me.nl_iter :
                  /\ ~BulkDeletes(me.ip_family, address_full)
                  /\ Update(r, [me EXCEPT !.nl_iter = @ \ {address_full}])
          ELSE \E addr_to_remove \in me.to_remove :
                  IF RetainedPanics(me.ip_family, me.has_ipv6_link_local_in_desire,
                                    addr_to_remove)
                  THEN Update(r, [me EXCEPT !.pc = "panic"])
                  ELSE /\ \/ Retained(me.ip_family, me.has_ipv6_link_local_in_desire,
                                      addr_to_remove)
                          \/ IsNone(LookupRemoval(NlAddrMsgs(me), addr_to_remove))
                       /\ Update(r, [me EXCEPT !.to_remove = @ \ {addr_to_remove}])
       /\ UNCHANGED kernel

\* The effect of a del call (lines 250-254, 261-265, 326-330) and of its answer.
Del(r, me, key, nl_addr_msg, rest) ==
    \E ok \in DelOutcomes(kernel, nl_addr_msg) :
       /\ kernel' = IF ok THEN KernelDel(kernel, nl_addr_msg) ELSE kernel
       /\ Update(r, Answer(rest, Call("del", me, key, nl_addr_msg, ok)))

del(r) ==
    LET me == run[r]
    IN /\ me.pc = "pass"
       /\ IF me.arm = "NoneSome"
          THEN \E address_full \in me.nl_iter :
                  /\ BulkDeletes(me.ip_family, address_full)
                  /\ Del(r, me, address_full, Unwrap(NlAddrMsgs(me))[address_full],
                         [me EXCEPT !.nl_iter = @ \ {address_full}])
          ELSE \E addr_to_remove \in me.to_remove :
                  /\ ~RetainedPanics(me.ip_family, me.has_ipv6_link_local_in_desire,
                                     addr_to_remove)
                  /\ ~Retained(me.ip_family, me.has_ipv6_link_local_in_desire,
                               addr_to_remove)
                  /\ IsSome(LookupRemoval(NlAddrMsgs(me), addr_to_remove))
                  /\ Del(r, me,
                         FullAddress(addr_to_remove.address, addr_to_remove.prefix_len),
                         Unwrap(LookupRemoval(NlAddrMsgs(me), addr_to_remove)),
                         [me EXCEPT !.to_remove = @ \ {addr_to_remove}])

\* One element of an add loop (lines 274-284, 336-346): the address text is
\* parsed, and only a parsed address is sent.
Add(r, me, addr_conf, rest) ==
    LET ip == ip_addr_str_to_enum(addr_conf.address)
        key == FullAddress(addr_conf.address, addr_conf.prefix_len)
    IN IF IsNone(ip)
       THEN /\ Update(r, [rest EXCEPT !.pc = "Err", !.error = "parse"])
            /\ UNCHANGED kernel
       ELSE LET msg == NewAddress(CurIface(me).index, Unwrap(ip), addr_conf.prefix_len)
            IN \E ok \in AddOutcomes(kernel, msg) :
                  /\ kernel' = IF ok THEN KernelAdd(kernel, msg) ELSE kernel
                  /\ Update(r, Answer(rest, Call("add", me, key, msg, ok)))

add(r) ==
    LET me == run[r]
    IN /\ me.pc = "pass"
       /\ RemovalsDone(me)
       /\ IF me.arm = "SomeNone"
          THEN /\ me.add_vec # <<>>
               /\ Add(r, me, Head(me.add_vec), [me EXCEPT !.add_vec = Tail(@)])
          ELSE \E addr_to_add \in me.to_add :
                  Add(r, me, addr_to_add, [me EXCEPT !.to_add = @ \ {addr_to_add}])

\* Line 349: the pass returns Ok; the IPv6 pass of the interface follows the IPv4
\* pass (line 216), the next interface follows the IPv6 pass.
apply_ip_conf_return(r) ==
    LET me == run[r]
    IN /\ me.pc = "pass"
       /\ me.nl_iter = {} /\ me.to_remove = {} /\ me.to_add = {} /\ me.add_vec = <<>>
       /\ Update(r, IF me.ip_family = PassOrder[1]
                    THEN [me EXCEPT !.pc = "apply_ip_conf", !.ip_family = PassOrder[2],
                                    !.arm = "none", !.has_ipv6_link_local_in_desire = FALSE]
                    ELSE [me EXCEPT !.pc = "for_iface", !.i = me.i + 1, !.arm = "none",
                                    !.has_ipv6_link_local_in_desire = FALSE])
       /\ UNCHANGED kernel

Step(r) ==
    \/ for_iface(r)
    \/ apply_ip_conf(r)
    \/ skip(r)
    \/ del(r)
    \/ add(r)
    \/ apply_ip_conf_return(r)
(***************************************************************************)
(* The inputs drawn: address texts, interfaces, kernel records.            *)
(***************************************************************************)
T_192_0_2_1 == <<"1", "9", "2", ".", "0", ".", "2", ".", "1">>
T_192_0_2_2 == <<"1", "9", "2", ".", "0", ".", "2", ".", "2">>
T_fe80_1 == <<"f", "e", "8", "0", ":", ":", "1">>
T_fe80_2 == <<"f", "e", "8", "0", ":", ":", "2">>
T_2001_db8_1 == <<"2", "0", "0", "1", ":", "d", "b", "8", ":", ":", "1">>
T_2001_db8_2 == <<"2", "0", "0", "1", ":", "d", "b", "8", ":", ":", "2">>

V4_1 == IpAddrConf(T_192_0_2_1, 24)
V4_2 == IpAddrConf(T_192_0_2_2, 24)
LL_1 == IpAddrConf(T_fe80_1, 64)
LL_2 == IpAddrConf(T_fe80_2, 64)
G_1 == IpAddrConf(T_2001_db8_1, 64)
G_2 == IpAddrConf(T_2001_db8_2, 64)
T_192_0_2_3 == <<"1", "9", "2", ".", "0", ".", "2", ".", "3">>
V4_3 == IpAddrConf(T_192_0_2_3, 24)
Finite == "3600sec"

Names == {"eth0", "eth1"}
IfaceIndex(name) == IF name = "eth0" THEN 2 ELSE 3

\* The kernel's record of an address of the interface.
Record(name, addr_conf, valid_lft) ==
    [index |-> IfaceIndex(name), address |-> Unwrap(ip_addr_str_to_enum(addr_conf.address)),
     prefix_len |-> addr_conf.prefix_len, valid_lft |-> valid_lft]

RECURSIVE SetToSeq(_)
SetToSeq(S) == IF S = {} THEN <<>> ELSE LET x == CHOOSE x \in S : TRUE
                                        IN <<x>> \o SetToSeq(S \ {x})

RECURSIVE SeqsUpTo(_, _)
SeqsUpTo(S, n) ==
    IF n = 0 THEN {<<>>}
    ELSE SeqsUpTo(S, n - 1) \cup {Append(q, x) : q \in {p \in SeqsUpTo(S, n - 1) : Len(p) = n - 1}, x \in S}

\* The interface layer's snapshot of one interface, read from the kernel table: a
\* family with no address has no info.
AddrInfo(m) ==
    [address |-> get_ip_addr(m), prefix_len |-> get_ip_prefix_len(m), valid_lft |-> m.valid_lft]

FamilyInfo(table, name, v6) ==
    LET ms == {m \in table : m.index = IfaceIndex(name) /\ IsV6(m.address) = v6}
    IN IF ms = {} THEN None ELSE Some([addresses |-> SetToSeq({AddrInfo(m) : m \in ms})])

Retrieve(table, name) ==
    [name |-> name, index |-> IfaceIndex(name),
     ipv4 |-> FamilyInfo(table, name, FALSE), ipv6 |-> FamilyInfo(table, name, TRUE)]

(***************************************************************************)
(* Spec: one run over up to MaxIfaces requested interfaces, the current    *)
(* state read from the kernel table just before the call.                  *)
(***************************************************************************)
MaxIfaces == 2

KernelPool ==
    {Record("eth0", V4_2, Forever), Record("eth0", G_1, Forever),
     Record("eth1", V4_2, Forever)}

IfaceConfs ==
    [name : Names,
     ipv4 : {None, Some([addresses |-> <<V4_1>>])},
     ipv6 : {None, Some([addresses |-> <<G_2>>])}]

Requests == SeqsUpTo(IfaceConfs, MaxIfaces)

Init ==
    /\ kernel \in SUBSET KernelPool
    /\ run = [r \in Runs |-> IdleRun]

Call_change_ips ==
    /\ run["A"].pc = "idle"
    /\ \E ifaces \in Requests, known \in SUBSET Names :
          change_ips("A", ifaces, [name \in known |-> Retrieve(kernel, name)])

ApplyConfs(ip_family) ==
    IF ip_family = Ipv4 THEN {[addresses |-> <<V4_1>>]} ELSE {[addresses |-> <<G_2>>]}

Call_apply ==
    /\ run["A"].pc = "idle"
    /\ \E family \in {Ipv4, Ipv6}, name \in Names :
          \E self \in ApplyConfs(family) :
             IpConf_apply("A", self, Retrieve(kernel, name), family)

Next == Call_change_ips \/ Call_apply \/ Step("A")

Spec == Init /\ [][Next]_vars
(***************************************************************************)
(* SpecPass: one run over one interface, one family under reconciliation   *)
(* (the other family is (None, None)), with the desired list, the caller's *)
(* snapshot and the kernel table drawn independently: the snapshot may be  *)
(* stale, but where it names an address the table holds it agrees with the *)
(* table on the lifetime.                                                  *)
(***************************************************************************)
MaxLen == 2
MaxCur == 2

DesiredPool(ip_family) ==
    IF ip_family = Ipv4 THEN {V4_1, V4_2} ELSE {LL_1, LL_2, G_1, G_2}

CurrentPool(ip_family) ==
    IF ip_family = Ipv4 THEN {V4_2, V4_3} ELSE {LL_1, G_1, G_2}

KernelPoolPass ==
    {Record("eth0", V4_3, Forever), Record("eth0", LL_1, Forever),
     Record("eth0", G_1, Forever), Record("eth0", G_2, Finite)}

Desireds(ip_family) ==
    {None} \cup {Some([addresses |-> q]) : q \in SeqsUpTo(DesiredPool(ip_family), MaxLen)}

Snapshots(ip_family) ==
    {None} \cup
    UNION {{Some([addresses |->
                    SetToSeq({[address |-> e.address, prefix_len |-> e.prefix_len,
                               valid_lft |-> lft[e]] : e \in S})]) :
              lft \in [S -> {Forever, Finite}]} :
           S \in {S \in SUBSET CurrentPool(ip_family) : Cardinality(S) <= MaxCur}}

\* The snapshot and the table give the same lifetime to an address both hold.
AgreesWith(info_opt, table, name) ==
    IsSome(info_opt) =>
        \A j \in 1..Len(Unwrap(info_opt).addresses) :
           LET a == Unwrap(info_opt).addresses[j]
           IN \A m \in table :
                 (m.index = IfaceIndex(name) /\ NlKey(m) = FullAddress(a.address, a.prefix_len))
                     => a.valid_lft = m.valid_lft

InitPass ==
    /\ kernel \in SUBSET KernelPoolPass
    /\ run = [r \in Runs |-> IdleRun]

Call_change_ips_pass ==
    /\ run["A"].pc = "idle"
    /\ \E ip_family \in {Ipv4, Ipv6} :
          \E desired \in Desireds(ip_family), current \in Snapshots(ip_family) :
             /\ AgreesWith(current, kernel, "eth0")
             /\ change_ips("A",
                           <<[name |-> "eth0",
                              ipv4 |-> IF ip_family = Ipv4 THEN desired ELSE None,
                              ipv6 |-> IF ip_family = Ipv6 THEN desired ELSE None]>>,
                           [name \in {"eth0"} |->
                              [name |-> "eth0", index |-> IfaceIndex("eth0"),
                               ipv4 |-> IF ip_family = Ipv4 THEN current ELSE None,
                               ipv6 |-> IF ip_family = Ipv6 THEN current ELSE None]])

NextPass == Call_change_ips_pass \/ Step("A")

SpecPass == InitPass /\ [][NextPass]_vars
(***************************************************************************)
(* SpecText: a run over one interface whose desired lists hold texts as a  *)
(* caller may write them (not an address, not ASCII, not in the form the   *)
(* kernel side prints), the current state read from the kernel table just  *)
(* before the call; and, when the run has returned Ok, a second run with   *)
(* the same desired configuration and the current state read again.        *)
(***************************************************************************)
T_192_0_2 == <<"1", "9", "2", ".", "0", ".", "2">>
T_fe_e9_0_1 == <<"f", "e", "U+00E9", "0", ":", ":", "1">>
T_2001_DB8_2 == <<"2", "0", "0", "1", ":", "D", "B", "8", ":", ":", "2">>

V4_Bad == IpAddrConf(T_192_0_2, 24)
V6_Multibyte == IpAddrConf(T_fe_e9_0_1, 64)
G_2_Upper == IpAddrConf(T_2001_DB8_2, 64)

KernelPoolText == {Record("eth0", V4_2, Forever), Record("eth0", G_1, Forever)}

TextDesireds(ip_family) ==
    IF ip_family = Ipv4
    THEN {None} \cup {Some([addresses |-> q]) :
                         q \in SeqsUpTo({V4_1, V4_Bad, V6_Multibyte}, MaxLen)}
    ELSE {None, Some([addresses |-> <<G_2>>]), Some([addresses |-> <<G_2_Upper>>])}

InitText ==
    /\ kernel \in SUBSET KernelPoolText
    /\ run = [r \in Runs |-> IdleRun]

Call_first ==
    /\ run["A"].pc = "idle"
    /\ \E ipv4 \in TextDesireds(Ipv4), ipv6 \in TextDesireds(Ipv6) :
          change_ips("A", <<[name |-> "eth0", ipv4 |-> ipv4, ipv6 |-> ipv6]>>,
                     [name \in {"eth0"} |-> Retrieve(kernel, name)])

Call_again ==
    /\ run["A"].pc = "Ok"
    /\ change_ips("B", run["A"].ifaces, [name \in {"eth0"} |-> Retrieve(kernel, name)])

NextText == Call_first \/ Call_again \/ Step("A") \/ Step("B")

SpecText == InitText /\ [][NextText]_vars
(***************************************************************************)
(* SpecRace: two runs for the same interface that the caller does not      *)
(* serialize; each reads the current state when it is called, and their    *)
(* steps interleave freely.                                                *)
(***************************************************************************)
KernelPoolRace == {Record("eth0", V4_2, Forever), Record("eth0", G_1, Forever)}

RaceDesireds == {None, Some([addresses |-> <<V4_1>>]), Some([addresses |-> <<V4_3>>])}

InitRace ==
    /\ kernel \in SUBSET KernelPoolRace
    /\ run = [r \in Runs |-> IdleRun]

Call_race(r) ==
    /\ run[r].pc = "idle"
    /\ \E ipv4 \in RaceDesireds :
          change_ips(r, <<[name |-> "eth0", ipv4 |-> ipv4, ipv6 |-> None]>>,
                     [name \in {"eth0"} |-> Retrieve(kernel, name)])

NextRace == \E r \in Runs : Call_race(r) \/ Step(r)

SpecRace == InitRace /\ [][NextRace]_vars
(***************************************************************************)
(* Properties.                                                             *)
(***************************************************************************)
A == run["A"]

\* The kernel table after the acknowledged calls of a log, from the table given.
RECURSIVE Replay(_, _)
Replay(log, table) ==
    IF log = <<>> THEN table
    ELSE LET c == Head(log)
         IN Replay(Tail(log),
                   IF ~c.ok THEN table
                   ELSE IF c.op = "add" THEN table \cup {c.msg}
                   ELSE {m \in table : ~SameAddress(m, c.msg)})

\* The records the dump of a run returned.
Dumped(me) ==
    UNION {{me.iface_2_nl_addr_msgs[x][k] : k \in DOMAIN me.iface_2_nl_addr_msgs[x]} :
           x \in DOMAIN me.iface_2_nl_addr_msgs}

DumpFailed(me) == me.pc = "Err" /\ me.error = "netlink" /\ me.log = <<>>

SamePass(c, d) == c.i = d.i /\ c.ip_family = d.ip_family

\* C1: within one (interface, family) pass no del call is issued after an add call
\* of the same pass.
C1_DeleteBeforeAdd ==
    \A r \in Runs : \A j, k \in 1..Len(run[r].log) :
       (j < k /\ SamePass(run[r].log[j], run[r].log[k]) /\ run[r].log[j].op = "add")
           => run[r].log[k].op # "del"

\* A pass that issued a del and then an add.
C1_Witness ==
    \E j, k \in 1..Len(A.log) :
       j < k /\ SamePass(A.log[j], A.log[k]) /\ A.log[j].op = "del" /\ A.log[k].op = "add"

\* C2: the calls of a run follow the order of the requested interfaces, each call is
\* sent for the interface at its position, and within an interface every call of the
\* IPv4 pass precedes every call of the IPv6 pass.
C2_InterfaceThenFamilyOrder ==
    \A r \in Runs :
       /\ \A j, k \in 1..Len(run[r].log) :
             j < k => \/ run[r].log[j].i < run[r].log[k].i
                      \/ /\ run[r].log[j].i = run[r].log[k].i
                         /\ ~(run[r].log[j].ip_family = Ipv6 /\ run[r].log[k].ip_family = Ipv4)
       /\ \A j \in 1..Len(run[r].log) :
             /\ run[r].log[j].i \in 1..Len(run[r].ifaces)
             /\ run[r].ifaces[run[r].log[j].i].name \in DOMAIN run[r].cur_ifaces
             /\ run[r].log[j].msg.index =
                    run[r].cur_ifaces[run[r].ifaces[run[r].log[j].i].name].index

\* A run with calls in the IPv4 and the IPv6 pass of its first interface and, after
\* them, a call for a second, different interface.
C2_Witness ==
    \E j, k, l \in 1..Len(A.log) :
       /\ j < k /\ k < l
       /\ A.log[j].i = 1 /\ A.log[j].ip_family = Ipv4
       /\ A.log[k].i = 1 /\ A.log[k].ip_family = Ipv6
       /\ A.log[l].i = 2 /\ A.log[l].msg.index # A.log[j].msg.index

\* C3: a failed del or add call is the last call of the run, the run has returned
\* that error, and the kernel table holds the effect of every call acknowledged
\* before it: nothing is undone.
C3_FailureAborts ==
    \A r \in Runs :
       /\ \A j \in 1..Len(run[r].log) :
             ~run[r].log[j].ok =>
                 j = Len(run[r].log) /\ run[r].pc = "Err" /\ run[r].error = "netlink"
       /\ (r = "A" /\ run[r].pc # "idle" /\ ~DumpFailed(run[r]))
             => kernel = Replay(run[r].log, Dumped(run[r]))

\* A run that deleted an address, then failed on the add that follows, with a
\* requested interface still to come: the address stays deleted.
C3_Witness ==
    /\ A.pc = "Err"
    /\ Len(A.log) = 2
    /\ A.log[1].op = "del" /\ A.log[1].ok /\ ~KernelHas(kernel, A.log[1].msg)
    /\ A.log[2].op = "add" /\ ~A.log[2].ok
    /\ A.i < Len(A.ifaces)
(***************************************************************************)
(* The passes of a run, as the properties below speak of them.             *)
(***************************************************************************)
Families == {Ipv4, Ipv6}

\* The requested interface at position p has a current state.
Known(me, p) == p \in 1..Len(me.ifaces) /\ me.ifaces[p].name \in DOMAIN me.cur_ifaces

DesiredAt(me, p, fam) == IF fam = Ipv4 THEN me.ifaces[p].ipv4 ELSE me.ifaces[p].ipv6
SnapshotAt(me, p, fam) ==
    IF fam = Ipv4 THEN me.cur_ifaces[me.ifaces[p].name].ipv4
    ELSE me.cur_ifaces[me.ifaces[p].name].ipv6

\* desired, as a set of entries.
DesiredSet(conf_opt) == Range(Unwrap(conf_opt).addresses)
\* current: the entries the snapshot reports with the lifetime "forever".
PermanentSet(info_opt) ==
    {IpAddrConf(a.address, a.prefix_len) :
        a \in {x \in Range(Unwrap(info_opt).addresses) : x.valid_lft = Forever}}
\* The entries the snapshot reports with a finite lifetime.
TransientSet(info_opt) ==
    IF IsNone(info_opt) THEN {}
    ELSE {IpAddrConf(a.address, a.prefix_len) :
             a \in {x \in Range(Unwrap(info_opt).addresses) : x.valid_lft # Forever}}

KeyOf(e) == FullAddress(e.address, e.prefix_len)
Keys(S) == {KeyOf(e) : e \in S}

\* The observed index of the interface at position p.
IndexAt(me, p) ==
    LET x == me.cur_ifaces[me.ifaces[p].name].index
    IN IF x \in DOMAIN me.iface_2_nl_addr_msgs THEN me.iface_2_nl_addr_msgs[x] ELSE <<>>

PassCalls(me, p, fam) == {j \in 1..Len(me.log) : me.log[j].i = p /\ me.log[j].ip_family = fam}
IssuedKeys(me, p, fam, op) == {me.log[j].key : j \in {k \in PassCalls(me, p, fam) : me.log[k].op = op}}

\* The pass of (p, fam) has returned Ok.
PassCompleted(me, p, fam) ==
    /\ me.pc # "idle"
    /\ \/ me.i > p
       \/ me.i = p /\ fam = Ipv4 /\ me.ip_family = Ipv6 /\ me.pc # "for_iface"

SomeSomePass(me, p, fam) ==
    Known(me, p) /\ IsSome(DesiredAt(me, p, fam)) /\ IsSome(SnapshotAt(me, p, fam))
NoneSomePass(me, p, fam) ==
    Known(me, p) /\ IsNone(DesiredAt(me, p, fam)) /\ IsSome(SnapshotAt(me, p, fam))

\* An address of fe80::/10 with a prefix length of at least 10.
LinkLocalIp(ip, prefix_len) == IsV6(ip) /\ ip[1] \div 64 = 1018 /\ prefix_len >= 10
LinkLocalRecord(m) == LinkLocalIp(m.address, m.prefix_len)
LinkLocalEntry(e) ==
    /\ IsSome(ip_addr_str_to_enum(e.address))
    /\ LinkLocalIp(Unwrap(ip_addr_str_to_enum(e.address)), e.prefix_len)

FamilyOfRecord(m) == IF IsV6(m.address) THEN Ipv6 ELSE Ipv4

\* C4: a pass whose desired set equals its current set (the permanent addresses of
\* the snapshot) issues no del and no add call.
C4_Idempotence ==
    \A r \in Runs : \A p \in 1..Len(run[r].ifaces) : \A fam \in Families :
       (/\ SomeSomePass(run[r], p, fam)
        /\ DesiredSet(DesiredAt(run[r], p, fam)) = PermanentSet(SnapshotAt(run[r], p, fam)))
           => PassCalls(run[r], p, fam) = {}

\* A finished run whose desired IPv6 set, of two addresses the kernel holds, equals
\* the current set: no call was issued.
C4_Witness ==
    /\ A.pc = "Ok" /\ A.log = <<>>
    /\ SomeSomePass(A, 1, Ipv6)
    /\ DesiredSet(DesiredAt(A, 1, Ipv6)) = {LL_1, G_1}
    /\ PermanentSet(SnapshotAt(A, 1, Ipv6)) = {LL_1, G_1}
    /\ Keys({LL_1, G_1}) \subseteq DOMAIN IndexAt(A, 1)

\* C5: in a (Some(D), Some(C)) pass every add is for an entry of D \ C, every del
\* is for an entry of C \ D, and the pass that returns Ok has added exactly D \ C.
C5_SetDifference ==
    \A r \in Runs : \A p \in 1..Len(run[r].ifaces) : \A fam \in Families :
       SomeSomePass(run[r], p, fam) =>
          LET D == DesiredSet(DesiredAt(run[r], p, fam))
              C == PermanentSet(SnapshotAt(run[r], p, fam))
          IN /\ IssuedKeys(run[r], p, fam, "add") \subseteq Keys(D \ C)
             /\ IssuedKeys(run[r], p, fam, "del") \subseteq Keys(C \ D)
             /\ PassCompleted(run[r], p, fam)
                   => IssuedKeys(run[r], p, fam, "add") = Keys(D \ C)

\* D = {192.0.2.1/24, 192.0.2.2/24}, C = {192.0.2.2/24, 192.0.2.3/24}: 192.0.2.3/24
\* was deleted, 192.0.2.1/24 added, and 192.0.2.2/24 not touched.
C5_Witness ==
    /\ A.pc = "Ok"
    /\ SomeSomePass(A, 1, Ipv4)
    /\ DesiredSet(DesiredAt(A, 1, Ipv4)) = {V4_1, V4_2}
    /\ PermanentSet(SnapshotAt(A, 1, Ipv4)) = {V4_2, V4_3}
    /\ IssuedKeys(A, 1, Ipv4, "del") = {KeyOf(V4_3)}
    /\ IssuedKeys(A, 1, Ipv4, "add") = {KeyOf(V4_1)}
    /\ Len(A.log) = 2

\* The keys of the index whose record is of the family and, for IPv6, is not
\* link-local.
BulkTargets(me, p, fam) ==
    {k \in DOMAIN IndexAt(me, p) :
        /\ FamilyOfRecord(IndexAt(me, p)[k]) = fam
        /\ ~(fam = Ipv6 /\ LinkLocalRecord(IndexAt(me, p)[k]))}

\* C6: a (None, Some) pass issues only del calls, each with the indexed record of
\* its family, never an IPv6 link-local one, and the pass that returns Ok has
\* deleted every such record.
C6_BulkRemoval ==
    \A r \in Runs : \A p \in 1..Len(run[r].ifaces) : \A fam \in Families :
       NoneSomePass(run[r], p, fam) =>
          /\ \A j \in PassCalls(run[r], p, fam) :
                /\ run[r].log[j].op = "del"
                /\ run[r].log[j].key \in BulkTargets(run[r], p, fam)
                /\ run[r].log[j].msg = IndexAt(run[r], p)[run[r].log[j].key]
          /\ PassCompleted(run[r], p, fam)
                => IssuedKeys(run[r], p, fam, "del") = BulkTargets(run[r], p, fam)

\* IPv6 not desired, fe80::1/64 and 2001:db8::1/64 current and indexed beside an
\* IPv4 record: the one call of the run deleted 2001:db8::1/64.
C6_Witness ==
    /\ A.pc = "Ok"
    /\ NoneSomePass(A, 1, Ipv6)
    /\ PermanentSet(SnapshotAt(A, 1, Ipv6)) = {LL_1, G_1}
    /\ DOMAIN IndexAt(A, 1) = Keys({LL_1, G_1, V4_3})
    /\ Len(A.log) = 1 /\ A.log[1].op = "del" /\ A.log[1].key = KeyOf(G_1)
    /\ kernel = {Record("eth0", LL_1, Forever), Record("eth0", V4_3, Forever)}

C8_LinkLocalReplaced ==
    \A r \in Runs : \A p \in 1..Len(run[r].ifaces) :
       (/\ SomeSomePass(run[r], p, Ipv6)
        /\ PassCompleted(run[r], p, Ipv6)
        /\ \E e \in DesiredSet(DesiredAt(run[r], p, Ipv6)) : LinkLocalEntry(e))
          => \A e \in PermanentSet(SnapshotAt(run[r], p, Ipv6))
                         \ DesiredSet(DesiredAt(run[r], p, Ipv6)) :
                (LinkLocalEntry(e) /\ KeyOf(e) \in DOMAIN IndexAt(run[r], p))
                   => KeyOf(e) \in IssuedKeys(run[r], p, Ipv6, "del")

\* C9: in an IPv6 pass whose desired configuration is present with an empty list,
\* the pass that returns Ok has deleted every indexed link-local entry of the
\* current set.
C9_EmptyDesiredRemovesLinkLocal ==
    \A r \in Runs : \A p \in 1..Len(run[r].ifaces) :
       (/\ SomeSomePass(run[r], p, Ipv6)
        /\ PassCompleted(run[r], p, Ipv6)
        /\ Unwrap(DesiredAt(run[r], p, Ipv6)).addresses = <<>>)
          => \A e \in PermanentSet(SnapshotAt(run[r], p, Ipv6)) :
                (LinkLocalEntry(e) /\ KeyOf(e) \in DOMAIN IndexAt(run[r], p))
                   => KeyOf(e) \in IssuedKeys(run[r], p, Ipv6, "del")

\* The entries the snapshot of the interface at position p reports with a finite
\* lifetime and not also with the lifetime "forever".
TransientAt(me, p) ==
    UNION {TransientSet(SnapshotAt(me, p, fam)) \
              (IF IsSome(SnapshotAt(me, p, fam)) THEN PermanentSet(SnapshotAt(me, p, fam))
               ELSE {}) : fam \in Families}

\* C10: in a pass whose desired configuration is present, no del is issued for an
\* address the snapshot reports with a finite lifetime, and an add is issued for
\* it only if the desired list has it.
C10_TransientUntouchedWhenDesired ==
    \A r \in Runs : \A p \in 1..Len(run[r].ifaces) : \A fam \in Families :
       (Known(run[r], p) /\ IsSome(DesiredAt(run[r], p, fam))) =>
          \A j \in PassCalls(run[r], p, fam) : \A a \in TransientAt(run[r], p) :
             run[r].log[j].key = KeyOf(a)
                => /\ run[r].log[j].op = "add"
                   /\ a \in DesiredSet(DesiredAt(run[r], p, fam))

\* Desired present and empty, 2001:db8::1/64 current, 2001:db8::2/64 reported with
\* a finite lifetime, both indexed: the one call of the run deleted
\* 2001:db8::1/64 and 2001:db8::2/64 is in the table.
C10_Witness ==
    /\ A.pc = "Ok"
    /\ SomeSomePass(A, 1, Ipv6)
    /\ DesiredSet(DesiredAt(A, 1, Ipv6)) = {}
    /\ PermanentSet(SnapshotAt(A, 1, Ipv6)) = {G_1}
    /\ TransientAt(A, 1) = {G_2}
    /\ Keys({G_1, G_2}) \subseteq DOMAIN IndexAt(A, 1)
    /\ Len(A.log) = 1 /\ A.log[1].op = "del" /\ A.log[1].key = KeyOf(G_1)
    /\ Record("eth0", G_2, Finite) \in kernel

\* C10 as stated: no del and no add is ever issued for an address the snapshot
\* reports with a finite lifetime.
C10_TransientNeverTouched ==
    \A r \in Runs : \A p \in 1..Len(run[r].ifaces) : \A fam \in Families :
       Known(run[r], p) =>
          \A j \in PassCalls(run[r], p, fam) : \A a \in TransientAt(run[r], p) :
             run[r].log[j].key # KeyOf(a)
SomeNonePass(me, p, fam) ==
    Known(me, p) /\ IsSome(DesiredAt(me, p, fam)) /\ IsNone(SnapshotAt(me, p, fam))

\* C11: a (Some(D), None) pass issues no del, issues adds for entries of D only, and
\* the pass that returns Ok has issued an add for every entry of D, whatever the
\* index holds.
C11_AddAllOnNoBaseline ==
    \A r \in Runs : \A p \in 1..Len(run[r].ifaces) : \A fam \in Families :
       SomeNonePass(run[r], p, fam) =>
          /\ IssuedKeys(run[r], p, fam, "del") = {}
          /\ IssuedKeys(run[r], p, fam, "add") \subseteq
                Keys(DesiredSet(DesiredAt(run[r], p, fam)))
          /\ PassCompleted(run[r], p, fam)
                => IssuedKeys(run[r], p, fam, "add") =
                      Keys(DesiredSet(DesiredAt(run[r], p, fam)))

\* IPv4 desired [192.0.2.1/24, 192.0.2.2/24] with no IPv4 snapshot and a record of
\* the interface in the index: the run issued two adds, in list order, and no del.
C11_Witness ==
    /\ A.pc = "Ok"
    /\ SomeNonePass(A, 1, Ipv4)
    /\ Unwrap(DesiredAt(A, 1, Ipv4)).addresses = <<V4_1, V4_2>>
    /\ DOMAIN IndexAt(A, 1) # {}
    /\ Len(A.log) = 2
    /\ A.log[1].op = "add" /\ A.log[1].key = KeyOf(V4_1)
    /\ A.log[2].op = "add" /\ A.log[2].key = KeyOf(V4_2)
\* The entries of C \ D the removal loop does not retain.
Removable(me, p, fam) ==
    {e \in PermanentSet(SnapshotAt(me, p, fam)) \ DesiredSet(DesiredAt(me, p, fam)) :
        ~(fam = Ipv6 /\ LinkLocalEntry(e))}

\* The run has returned an error that a call or a parse gave it.
ErrorFromCallOrParse(me) ==
    \/ me.error = "parse"
    \/ me.error = "netlink" /\ (me.log = <<>> \/ ~me.log[Len(me.log)].ok)

\* C12: in a (Some, Some) pass a del is issued only with a record of the index, an
\* entry of current \ desired whose key the index lacks gets no call and raises no
\* error (a run in error has it from a failed call or a parse), and the pass that
\* returns Ok has deleted the indexed removable entries and added every addition.
C12_UnresolvableDeleteIsNoOp ==
    \A r \in Runs :
       /\ run[r].pc = "Err" => ErrorFromCallOrParse(run[r])
       /\ \A p \in 1..Len(run[r].ifaces) : \A fam \in Families :
             SomeSomePass(run[r], p, fam) =>
                /\ \A j \in PassCalls(run[r], p, fam) :
                      run[r].log[j].op = "del" =>
                         /\ run[r].log[j].key \in DOMAIN IndexAt(run[r], p)
                         /\ run[r].log[j].msg = IndexAt(run[r], p)[run[r].log[j].key]
                /\ PassCompleted(run[r], p, fam) =>
                      /\ IssuedKeys(run[r], p, fam, "del") =
                            Keys(Removable(run[r], p, fam)) \cap DOMAIN IndexAt(run[r], p)
                      /\ IssuedKeys(run[r], p, fam, "add") =
                            Keys(DesiredSet(DesiredAt(run[r], p, fam))
                                    \ PermanentSet(SnapshotAt(run[r], p, fam)))

\* D = {192.0.2.1/24}, C = {192.0.2.2/24, 192.0.2.3/24}, the index holding
\* 192.0.2.3/24 only: the run returned Ok with one del, for 192.0.2.3/24, and the
\* add of 192.0.2.1/24.
C12_Witness ==
    /\ A.pc = "Ok"
    /\ SomeSomePass(A, 1, Ipv4)
    /\ DesiredSet(DesiredAt(A, 1, Ipv4)) = {V4_1}
    /\ PermanentSet(SnapshotAt(A, 1, Ipv4)) = {V4_2, V4_3}
    /\ KeyOf(V4_2) \notin DOMAIN IndexAt(A, 1)
    /\ Len(A.log) = 2
    /\ A.log[1].op = "del" /\ A.log[1].key = KeyOf(V4_3)
    /\ A.log[2].op = "add" /\ A.log[2].key = KeyOf(V4_1)
\* The text is an IPv4 or an IPv6 address.
Parseable(address) == IsSome(ParseIpv4(address)) \/ IsSome(ParseIpv6(address))

\* The entries of a list before its first entry whose text is not an address.
RECURSIVE ParsedPrefix(_)
ParsedPrefix(list) ==
    IF list = <<>> \/ ~Parseable(Head(list).address) THEN <<>>
    ELSE <<Head(list)>> \o ParsedPrefix(Tail(list))

\* C13: a run that met an address text that does not parse has returned the parse
\* error; every add it issued is for a text that parses, the entry it stopped at
\* and, in list order, every later entry got no add, and the table holds every
\* call acknowledged before: nothing is undone.
C13_MalformedAddressAborts ==
    \A r \in Runs :
       /\ \A j \in 1..Len(run[r].log) :
             run[r].log[j].op = "add" => Parseable(Split(run[r].log[j].key, "/")[1])
       /\ run[r].error = "parse" =>
             /\ run[r].pc = "Err"
             /\ \A j \in 1..Len(run[r].log) : run[r].log[j].ok
             /\ kernel = Replay(run[r].log, Dumped(run[r]))
             /\ \E e \in DesiredSet(DesiredAt(run[r], run[r].i, run[r].ip_family)) :
                   /\ ~Parseable(e.address)
                   /\ KeyOf(e) \notin IssuedKeys(run[r], run[r].i, run[r].ip_family, "add")
             /\ SomeNonePass(run[r], run[r].i, run[r].ip_family) =>
                   LET issued == SelectSeq(run[r].log,
                                           LAMBDA c : c.i = run[r].i /\ c.ip_family = run[r].ip_family)
                       parsed == ParsedPrefix(
                                    Unwrap(DesiredAt(run[r], run[r].i, run[r].ip_family)).addresses)
                   IN [j \in 1..Len(issued) |-> issued[j].key] =
                         [j \in 1..Len(parsed) |-> KeyOf(parsed[j])]

\* D = {"192.0.2"/24}, C = {192.0.2.2/24}: the pass deleted 192.0.2.2/24, then
\* returned the parse error without an add; 192.0.2.2/24 is not in the table.
C13_Witness ==
    /\ A.pc = "Err" /\ A.error = "parse"
    /\ SomeSomePass(A, 1, Ipv4)
    /\ DesiredSet(DesiredAt(A, 1, Ipv4)) = {V4_Bad}
    /\ Len(A.log) = 1 /\ A.log[1].op = "del" /\ A.log[1].ok /\ A.log[1].key = KeyOf(V4_2)
    /\ Record("eth0", V4_2, Forever) \notin kernel
\* current of a pass as a set: empty when the snapshot has no info of the family.
CurrentSet(info_opt) == IF IsSome(info_opt) THEN PermanentSet(info_opt) ELSE {}

\* C14: a requested interface whose name the current-state mapping lacks gets no
\* call and raises no error (a run in error has it from a failed call or a parse),
\* and the run that returns Ok has issued, for every requested interface the
\* mapping has, the adds of its desired lists.
C14_UnknownInterfaceSkipped ==
    \A r \in Runs :
       /\ run[r].pc = "Err" => ErrorFromCallOrParse(run[r])
       /\ \A p \in 1..Len(run[r].ifaces) :
             IF Known(run[r], p)
             THEN run[r].pc = "Ok" =>
                     \A fam \in Families :
                        IsSome(DesiredAt(run[r], p, fam)) =>
                           IssuedKeys(run[r], p, fam, "add") =
                              Keys(DesiredSet(DesiredAt(run[r], p, fam))
                                      \ CurrentSet(SnapshotAt(run[r], p, fam)))
             ELSE \A fam \in Families : PassCalls(run[r], p, fam) = {}

\* eth0, requested first with a desired IPv4 list, is not in the mapping; eth1,
\* requested second, is: the run returned Ok and its calls are those of eth1.
C14_Witness ==
    /\ A.pc = "Ok"
    /\ Len(A.ifaces) = 2
    /\ A.ifaces[1].name = "eth0" /\ IsSome(A.ifaces[1].ipv4)
    /\ A.ifaces[2].name = "eth1"
    /\ DOMAIN A.cur_ifaces = {"eth1"}
    /\ A.log # <<>>
    /\ \A j \in 1..Len(A.log) : A.log[j].i = 2 /\ A.log[j].msg.index = IfaceIndex("eth1")
\* C15: the index is the answer of the one query that opens the run, made before
\* any call; it does not change afterwards and every del is sent with a record of
\* it; a run whose query failed has returned the error and issued no call.
C15_IndexBuiltOnce ==
    /\ [](\A r \in Runs :
            /\ (run[r].pc # "idle" /\ run[r].i = 0) =>
                  /\ run[r].pc = "Err" /\ run[r].error = "netlink"
                  /\ run[r].log = <<>>
            /\ \A j \in 1..Len(run[r].log) :
                  run[r].log[j].op = "del" => run[r].log[j].msg \in Dumped(run[r]))
    /\ [][\A r \in Runs :
            /\ run[r].pc = "idle" =>
                  /\ run'[r].log = <<>>
                  /\ run'[r].pc \in {"idle", "Err"}
                        \/ run'[r].iface_2_nl_addr_msgs = get_nl_addr_msgs(kernel)
            /\ run[r].pc # "idle" =>
                  run'[r].iface_2_nl_addr_msgs = run[r].iface_2_nl_addr_msgs]_vars

\* A finished run that issued a del after an acknowledged add, with a record of
\* the index, the index no longer being what the table holds.
C15_Witness ==
    /\ A.pc = "Ok"
    /\ A.iface_2_nl_addr_msgs # get_nl_addr_msgs(kernel)
    /\ \E j, k \in 1..Len(A.log) :
          /\ j < k
          /\ A.log[j].op = "add" /\ A.log[j].ok
          /\ A.log[k].op = "del" /\ A.log[k].ok /\ A.log[k].msg \in Dumped(A)
\* C16: the classifiers never panic, whatever the address text: no run unwinds
\* while classifying an entry of a desired or a current list.
C16_ClassifiersNeverPanic ==
    \A r \in Runs : run[r].pc # "panic"
B == run["B"]

\* The table a run alone leaves when every call is acknowledged, its current state
\* read from the table given: one family of one interface, then the interface.
SettledFamily(table, name, fam, desired) ==
    LET recs == {m \in table : m.index = IfaceIndex(name) /\ FamilyOfRecord(m) = fam}
        perm == {m \in recs : m.valid_lft = Forever}
        entry(m) == IpAddrConf(get_ip_addr(m), m.prefix_len)
        made(e) == NewAddress(IfaceIndex(name), Unwrap(ip_addr_str_to_enum(e.address)),
                              e.prefix_len)
        spared(m) == fam = Ipv6 /\ LinkLocalRecord(m)
    IN IF IsNone(desired)
       THEN table \ {m \in recs : ~spared(m)}
       ELSE IF recs = {}
       THEN table \cup {made(e) : e \in DesiredSet(desired)}
       ELSE (table \ {m \in perm : entry(m) \notin DesiredSet(desired) /\ ~spared(m)})
               \cup {made(e) : e \in DesiredSet(desired) \ {entry(m) : m \in perm}}

Settled(table, iface) ==
    SettledFamily(SettledFamily(table, iface.name, Ipv4, iface.ipv4),
                  iface.name, Ipv6, iface.ipv6)

\* The addresses of the interface in the table, as entries.
AddressesOf(table, name) ==
    {IpAddrConf(get_ip_addr(m), m.prefix_len) : m \in {n \in table : n.index = IfaceIndex(name)}}

\* C17: the engine has no coordination between runs: whatever the other run is
\* doing, a run that has not been called can be called, a run between two passes
\* can enter the next, a run with removals to visit can visit one, and a run with
\* nothing left to visit can return from its pass.
C17_NoCoordination ==
    \A r \in Runs :
       /\ run[r].pc = "idle" => ENABLED Call_race(r)
       /\ run[r].pc \in {"for_iface", "apply_ip_conf"}
             => ENABLED (for_iface(r) \/ apply_ip_conf(r))
       /\ (run[r].pc = "pass" /\ ~RemovalsDone(run[r])) => ENABLED (skip(r) \/ del(r))
       /\ (/\ run[r].pc = "pass" /\ RemovalsDone(run[r])
           /\ run[r].to_add = {} /\ run[r].add_vec = <<>>)
             => ENABLED apply_ip_conf_return(r)

\* Both runs were called on the empty table, A for {192.0.2.1/24} and B for
\* {192.0.2.3/24}, and both returned Ok: the table holds both addresses, which is
\* neither desired set and not what A then B, or B then A, leaves.
C17_Witness ==
    /\ A.pc = "Ok" /\ B.pc = "Ok"
    /\ A.iface_2_nl_addr_msgs = <<>> /\ B.iface_2_nl_addr_msgs = <<>>
    /\ IsSome(A.ifaces[1].ipv4) /\ IsSome(B.ifaces[1].ipv4)
    /\ DesiredSet(A.ifaces[1].ipv4) = {V4_1}
    /\ DesiredSet(B.ifaces[1].ipv4) = {V4_3}
    /\ AddressesOf(kernel, "eth0") = {V4_1, V4_3}
    /\ AddressesOf(kernel, "eth0") # DesiredSet(A.ifaces[1].ipv4)
    /\ AddressesOf(kernel, "eth0") # DesiredSet(B.ifaces[1].ipv4)
    /\ kernel # Settled(Settled({}, A.ifaces[1]), B.ifaces[1])
    /\ kernel # Settled(Settled({}, B.ifaces[1]), A.ifaces[1])
    /\ Settled(Settled({}, A.ifaces[1]), B.ifaces[1]) = {Record("eth0", V4_3, Forever)}
    /\ Settled(Settled({}, B.ifaces[1]), A.ifaces[1]) = {Record("eth0", V4_1, Forever)}
\* C18: when a run whose desired texts all parse has returned Ok, a second run
\* with the same desired configuration and the current state read again from the
\* table issues no call.
C18_FixpointAfterSuccess ==
    (/\ A.pc = "Ok"
     /\ B.pc # "idle"
     /\ B.ifaces = A.ifaces
     /\ \A p \in 1..Len(A.ifaces) : \A fam \in Families :
           IsSome(DesiredAt(A, p, fam)) =>
              \A e \in DesiredSet(DesiredAt(A, p, fam)) : Parseable(e.address))
       => B.log = <<>>
\* C19: within one (interface, family) pass no address and prefix is the target of
\* two add calls and no record is the target of two del calls.
C19_NoRepeatedTarget ==
    \A r \in Runs : \A j, k \in 1..Len(run[r].log) :
       (/\ j < k
        /\ SamePass(run[r].log[j], run[r].log[k])
        /\ run[r].log[j].op = run[r].log[k].op)
          => ~SameAddress(run[r].log[j].msg, run[r].log[k].msg)
\* The run was called through IpConf::apply.
ThroughApply(me) ==
    /\ Len(me.ifaces) = 1
    /\ me.ifaces[1].name = DefaultIfaceConf.name
    /\ Cardinality(DOMAIN me.cur_ifaces) = 1

\* C20: a run called through IpConf::apply with a configuration, an interface and
\* a family that has returned Ok has issued the adds of the one pass of that family
\* with desired the configuration and current the permanent addresses of the
\* interface, and no call of the other family.
C20_ApplyIsOnePass ==
    \A r \in Runs :
       (ThroughApply(run[r]) /\ run[r].pc = "Ok") =>
          LET me == run[r]
              cur_iface == me.cur_ifaces[CHOOSE name \in DOMAIN me.cur_ifaces : TRUE]
              family == IF IsSome(me.ifaces[1].ipv4) THEN Ipv4 ELSE Ipv6
              self == IF family = Ipv4 THEN me.ifaces[1].ipv4 ELSE me.ifaces[1].ipv6
              info == IF family = Ipv4 THEN cur_iface.ipv4 ELSE cur_iface.ipv6
          IN /\ \A j \in 1..Len(me.log) : me.log[j].ip_family = family
             /\ {me.log[j].key : j \in {k \in 1..Len(me.log) : me.log[k].op = "add"}} =
                   Keys(DesiredSet(self) \ CurrentSet(info))
====
